---- MODULE Spec2Model ----
(***************************************************************************)
(* A model of jaipur.py: the JaipurGame state machine (automat             *)
(* MethodicalMachine), its containers (deck, play area, hands, goods and   *)
(* bonus token piles), the action executor and the round-end scorer.       *)
(*                                                                         *)
(* automat sets the machine's state to the transition's target BEFORE it   *)
(* runs the transition's outputs, and an output may feed the machine a new *)
(* input.  player_action therefore enters _pending_action, and the output  *)
(* take_action runs the executor there and feeds _action_failure or        *)
(* _action_success, whose outputs feed _next_turn or _end_round, and so    *)
(* on.  The model has one action for the player_action transition (the     *)
(* request is then in flight) and one for the whole take_action chain.     *)
(*                                                                         *)
(* Multisets (multiset.Multiset) are functions from card types to counts.  *)
(* Its comparison operators are the set ones:  a > b  is "a is a proper    *)
(* superset of b",  a -= b  removes what is there (never below zero).      *)
(***************************************************************************)
EXTENDS Integers, Sequences, FiniteSets, TLC

----------------------------------------------------------------------------
(* Bounds of the model *)

\* seeds of the random source: each seed fixes the shuffles of one round
NumSeeds == 3
\* accepted actions explored per round under Spec
MaxTurns == 2
\* largest quantity a Sell request of Spec asks for (the smallest is -1)
MaxSell == 3
\* accepted actions explored per round under SpecMatch
MatchTurns == 60
\* cards of one good a player of SpecMatch holds before selling them
LiquidateAt == 3
\* rounds explored under SpecMatch
MaxRounds == 3
\* accepted actions explored per round under SpecSingle
SingleTurns == 6

----------------------------------------------------------------------------
(* Card types, tokens, piles, deck *)

CAMEL == "Camel"
LEATHER == "Leather"
SPICE == "Spice"
CLOTH == "Cloth"
SILVER == "Silver"
GOLD == "Gold"
DIAMONDS == "Diamonds"

CardType == {CAMEL, LEATHER, SPICE, CLOTH, SILVER, GOLD, DIAMONDS}
Goods == CardType \ {CAMEL}
PRECIOUS_GOODS == {SILVER, GOLD, DIAMONDS}
MAX_HANDSIZE == 7

Player1 == "Player 1"
Player2 == "Player 2"
Players == {Player1, Player2}
Other(p) == IF p = Player1 THEN Player2 ELSE Player1

\* Token(type, value) and BonusToken(bonus_type, value)
Token(type, value) == [kind |-> "goods", type |-> type, tier |-> 0, value |-> value]
BonusToken(bonus_type, value) == [kind |-> "bonus", type |-> "None", tier |-> bonus_type, value |-> value]

\* TokenPile.point_map: the values of a goods pile, in list order
TokenPile(card_type) ==
    CASE card_type = LEATHER -> <<4, 3, 2, 1, 1, 1, 1, 1, 1>>
      [] card_type = SPICE -> <<5, 3, 3, 2, 2, 1, 1>>
      [] card_type = CLOTH -> <<5, 3, 3, 2, 2, 1, 1>>
      [] card_type = SILVER -> <<5, 5, 5, 5, 5>>
      [] card_type = GOLD -> <<6, 6, 5, 5, 5>>
      [] card_type = DIAMONDS -> <<7, 7, 5, 5, 5>>

Tokens == [card_type \in Goods |-> TokenPile(card_type)]

BonusTypes == {3, 4, 5}

BonusTokenPile(bonus_type) ==
    CASE bonus_type = 3 -> <<1, 1, 2, 2, 2, 3, 3>>
      [] bonus_type = 4 -> <<4, 4, 5, 5, 6, 6>>
      [] bonus_type = 5 -> <<8, 8, 9, 10, 10>>

Bonuses == [bonus_type \in BonusTypes |-> BonusTokenPile(bonus_type)]

Rep(c, n) == [i \in 1..n |-> c]

\* StandardDeck: the cards in the order the constructor lists them
StandardDeck ==
    Rep(CAMEL, 11) \o Rep(LEATHER, 10) \o Rep(SPICE, 8) \o Rep(CLOTH, 8)
        \o Rep(SILVER, 6) \o Rep(GOLD, 6) \o Rep(DIAMONDS, 6)

----------------------------------------------------------------------------
(* Multiset *)

EmptyBag == [c \in CardType |-> 0]

\* len(multiset): the number of elements, with multiplicity
BagLen(m) ==
    m[CAMEL] + m[LEATHER] + m[SPICE] + m[CLOTH] + m[SILVER] + m[GOLD] + m[DIAMONDS]

\* Multiset(iterable)
BagOf(seq) == [c \in CardType |-> Cardinality({i \in DOMAIN seq : seq[i] = c})]

\* multiset.distinct_elements(), turned into a multiset by the comparison
Distinct(m) == [c \in CardType |-> IF m[c] > 0 THEN 1 ELSE 0]

\* a > b : a is a proper superset of b (Multiset.__gt__ -> _issuperset(strict))
ProperSuperset(a, b) ==
    /\ BagLen(a) > BagLen(b)
    /\ \A c \in CardType : a[c] >= b[c]

\* a -= b : Multiset.difference_update, a multiplicity never drops below zero
BagDiff(a, b) == [c \in CardType |-> IF a[c] > b[c] THEN a[c] - b[c] ELSE 0]

\* a += b : Multiset.update
BagSum(a, b) == [c \in CardType |-> a[c] + b[c]]

\* Player.cards_in_hand: camels do not count
cards_in_hand(h) == h[LEATHER] + h[SPICE] + h[CLOTH] + h[SILVER] + h[GOLD] + h[DIAMONDS]

RECURSIVE SeqSum(_)
SeqSum(s) == IF s = <<>> THEN 0 ELSE s[1] + SeqSum(Tail(s))

\* Player.points
points(tks) == SeqSum([i \in DOMAIN tks |-> tks[i].value])

----------------------------------------------------------------------------
(* Shuffling.  random.shuffle may leave any order; the model draws the     *)
(* order from a family of permutations indexed by the seed of the random   *)
(* source: position i receives element ((i-1) * m + seed) mod n, with m    *)
(* coprime to every length shuffled (55, 7, 6, 5).                         *)

Multiplier(seed) == <<13, 17, 19, 23, 29, 31, 37, 41>>[seed]

shuffle(s, seed) ==
    LET n == Len(s) IN
    [i \in 1..n |-> s[(((i - 1) * Multiplier(seed) + seed) % n) + 1]]

Seeds == 1..NumSeeds

----------------------------------------------------------------------------
(* The machine *)

VARIABLES
    state,            \* the MethodicalMachine's state
    deck,             \* self.deck: a list, pop() takes the last element
    play_area,        \* self.play_area: a multiset
    hand,             \* player.hand, per player: a multiset
    ptokens,          \* player.tokens, per player: a list in award order
    seals,            \* player.seals, per player
    tokens,           \* self.tokens: goods type -> pile (a list)
    bonuses,          \* self.bonuses: bonus type -> pile (a list)
    current_player,   \* self.current_player
    pending,          \* the arguments of the player_action being executed
    call,             \* what the last external call did (observer)
    sold,             \* cards sold since the round started (observer)
    turns,            \* accepted actions since the round started (observer)
    round             \* rounds set up so far (observer)

game == <<deck, play_area, hand, ptokens, seals, tokens, bonuses, current_player>>
vars == <<state, deck, play_area, hand, ptokens, seals, tokens, bonuses,
          current_player, pending, call, sold, turns, round>>

----------------------------------------------------------------------------
(* Requests: player_action(action_type, *args) *)

NoCard == "None"

Request(action_type, card, qty, take, give) ==
    [type |-> action_type, card |-> card, qty |-> qty, take |-> take, give |-> give]

NoRequest == Request("None", NoCard, 0, EmptyBag, EmptyBag)

TakeCamels == Request("TAKE_CAMELS", NoCard, 0, EmptyBag, EmptyBag)
TakeSingle(c) == Request("TAKE_SINGLE", c, 0, EmptyBag, EmptyBag)
TakeMany(take, give) == Request("TAKE_MANY", NoCard, 0, take, give)
Sell(c, q) == Request("SELL", c, q, EmptyBag, EmptyBag)
Unrecognized == Request("UNRECOGNIZED", NoCard, 0, EmptyBag, EmptyBag)

----------------------------------------------------------------------------
(* _setup_round *)

\* list.index(x) followed by list.pop(i): drop the first occurrence of c
RemoveFirst(s, c) ==
    LET i == CHOOSE k \in DOMAIN s : s[k] = c /\ \A j \in 1..(k - 1) : s[j] # c
    IN  SubSeq(s, 1, i - 1) \o SubSeq(s, i + 1, Len(s))

\* k times list.pop(): the cards come off the end of the list, last first
Popped(s, k) == [i \in 1..k |-> s[Len(s) + 1 - i]]
Rest(s, k) == SubSeq(s, 1, Len(s) - k)

\* The camels seeded into the play area
SeedCamels == 3
\* The other cards dealt to the play area
SeedOthers == 2
\* The cards dealt to each player
DealSize == 5

\* The containers _setup_round builds, and the cards it adds to each hand
\* (the hands themselves are the players', and are only added to).
SetupRound(seed) ==
    LET d0 == shuffle(StandardDeck, seed)
        d1 == RemoveFirst(RemoveFirst(RemoveFirst(d0, CAMEL), CAMEL), CAMEL)
        pa == BagSum([EmptyBag EXCEPT ![CAMEL] = SeedCamels], BagOf(Popped(d1, SeedOthers)))
        d2 == Rest(d1, SeedOthers)
        h1 == BagOf(Popped(d2, DealSize))
        d3 == Rest(d2, DealSize)
        h2 == BagOf(Popped(d3, DealSize))
        d4 == Rest(d3, DealSize)
    IN  [play_area |-> pa,
         deck |-> d4,
         tokens |-> Tokens,
         bonuses |-> [b \in BonusTypes |-> shuffle(BonusTokenPile(b), seed)],
         deal |-> [p \in Players |-> IF p = Player1 THEN h1 ELSE h2]]

----------------------------------------------------------------------------
(* _execute_action.  Each branch returns the error it raises ("none" when  *)
(* it returns normally) and the containers as it leaves them.              *)

Result(err, pa, h, tks, piles, bpiles, q) ==
    [err |-> err, play_area |-> pa, hand |-> h, ptokens |-> tks,
     tokens |-> piles, bonuses |-> bpiles, sold |-> q]

Illegal == "IllegalPlayError"
Malformed == "ValueError"

ExecTakeCamels(pa, h, tks, piles, bpiles) ==
    LET num_camels == pa[CAMEL] IN
    IF num_camels = 0
    THEN Result(Illegal, pa, h, tks, piles, bpiles, 0)
    ELSE Result("none", [pa EXCEPT ![CAMEL] = 0],
                [h EXCEPT ![CAMEL] = @ + num_camels], tks, piles, bpiles, 0)

\* ExecTakeSingle with the hand limit tested one card late
ExecTakeSingleLate(c, pa, h, tks, piles, bpiles) ==
    IF cards_in_hand(h) > MAX_HANDSIZE
    THEN Result(Illegal, pa, h, tks, piles, bpiles, 0)
    ELSE IF c \in CardType /\ pa[c] > 0
    THEN Result("none", [pa EXCEPT ![c] = @ - 1], [h EXCEPT ![c] = @ + 1],
                tks, piles, bpiles, 0)
    ELSE Result(Illegal, pa, h, tks, piles, bpiles, 0)

ExecTakeSingle(c, pa, h, tks, piles, bpiles) ==
    IF cards_in_hand(h) >= MAX_HANDSIZE
    THEN Result(Illegal, pa, h, tks, piles, bpiles, 0)
    ELSE IF c \in CardType /\ pa[c] > 0
    THEN Result("none", [pa EXCEPT ![c] = @ - 1], [h EXCEPT ![c] = @ + 1],
                tks, piles, bpiles, 0)
    ELSE Result(Illegal, pa, h, tks, piles, bpiles, 0)

\* "The same type of good cannot be both taken and surrendered":
\* card_types_to_take.distinct_elements() < card_types_to_give.  The left
\* side is a dict view, which leaves the comparison to the multiset on the
\* right: "give is a proper superset of the distinct types taken".
SameTypeCheck(take, give) == ProperSuperset(give, Distinct(take))

\* ExecTakeMany with the cards taken never added to the hand
ExecTakeManyKeep(take, give, pa, h, tks, piles, bpiles) ==
    IF BagLen(take) # BagLen(give)
    THEN Result(Malformed, pa, h, tks, piles, bpiles, 0)
    ELSE IF BagLen(take) <= 1 \/ take[CAMEL] > 0 \/ SameTypeCheck(take, give)
              \/ ProperSuperset(take, pa) \/ ProperSuperset(give, h)
    THEN Result(Illegal, pa, h, tks, piles, bpiles, 0)
    ELSE Result("none", BagSum(BagDiff(pa, take), give), BagDiff(h, give),
                tks, piles, bpiles, 0)

ExecTakeMany(take, give, pa, h, tks, piles, bpiles) ==
    IF BagLen(take) # BagLen(give)
    THEN Result(Malformed, pa, h, tks, piles, bpiles, 0)
    ELSE IF BagLen(take) <= 1
    THEN Result(Illegal, pa, h, tks, piles, bpiles, 0)
    ELSE IF take[CAMEL] > 0
    THEN Result(Illegal, pa, h, tks, piles, bpiles, 0)
    ELSE IF SameTypeCheck(take, give)
    THEN Result(Illegal, pa, h, tks, piles, bpiles, 0)
    ELSE IF ProperSuperset(take, pa)
    THEN Result(Illegal, pa, h, tks, piles, bpiles, 0)
    ELSE IF ProperSuperset(give, h)
    THEN Result(Illegal, pa, h, tks, piles, bpiles, 0)
    ELSE Result("none", BagSum(BagDiff(pa, take), give),
                BagSum(BagDiff(h, give), take), tks, piles, bpiles, 0)

Min(a, b) == IF a < b THEN a ELSE b

\* for _ in range(q): tokens.append(pile.pop()), an empty pile is skipped
AwardedGoods(c, pile, q) ==
    LET n == IF q < 0 THEN 0 ELSE Min(q, Len(pile))
    IN  [i \in 1..n |-> Token(c, pile[Len(pile) + 1 - i])]

PileAfter(pile, q) ==
    LET n == IF q < 0 THEN 0 ELSE Min(q, Len(pile)) IN SubSeq(pile, 1, Len(pile) - n)

\* AwardedBonus with the quantity not capped at 5
AwardedBonusUncapped(bpiles, q) ==
    IF q \in BonusTypes /\ Len(bpiles[q]) > 0
    THEN <<BonusToken(q, bpiles[q][Len(bpiles[q])])>>
    ELSE <<>>

\* bonus_quantity = min(q, 5); if it names a pile, pop it (skip when empty)
AwardedBonus(bpiles, q) ==
    LET b == Min(q, 5) IN
    IF b \in BonusTypes /\ Len(bpiles[b]) > 0
    THEN <<BonusToken(b, bpiles[b][Len(bpiles[b])])>>
    ELSE <<>>

BonusesAfter(bpiles, q) ==
    LET b == Min(q, 5) IN
    IF b \in BonusTypes /\ Len(bpiles[b]) > 0
    THEN [bpiles EXCEPT ![b] = SubSeq(@, 1, Len(@) - 1)]
    ELSE bpiles

\* The checks of a sale, in the code's order; "none" when the sale goes ahead
SellCheck(c, q, h) ==
    IF c = CAMEL THEN Illegal
    ELSE IF q = 0 THEN Illegal
    ELSE IF h[c] < q THEN Illegal
    ELSE IF c \in PRECIOUS_GOODS /\ q = 1 THEN Illegal
    ELSE "none"

\* ExecSell with the cards removed from the hand before the last check
ExecSellEager(c, q, pa, h, tks, piles, bpiles) ==
    IF c = CAMEL \/ q = 0 \/ h[c] < q
    THEN Result(Illegal, pa, h, tks, piles, bpiles, 0)
    ELSE IF c \in PRECIOUS_GOODS /\ q = 1
    THEN Result(Illegal, pa, [h EXCEPT ![c] = @ - q], tks, piles, bpiles, 0)
    ELSE Result("none", pa, [h EXCEPT ![c] = @ - q],
                tks \o AwardedGoods(c, piles[c], q) \o AwardedBonus(bpiles, q),
                [piles EXCEPT ![c] = PileAfter(@, q)],
                BonusesAfter(bpiles, q),
                IF q > 0 THEN q ELSE 0)

ExecSell(c, q, pa, h, tks, piles, bpiles) ==
    IF SellCheck(c, q, h) # "none"
    THEN Result(SellCheck(c, q, h), pa, h, tks, piles, bpiles, 0)
    ELSE Result("none", pa, [h EXCEPT ![c] = @ - q],
                tks \o AwardedGoods(c, piles[c], q) \o AwardedBonus(bpiles, q),
                [piles EXCEPT ![c] = PileAfter(@, q)],
                BonusesAfter(bpiles, q),
                IF q > 0 THEN q ELSE 0)

ExecuteAction(req, pa, h, tks, piles, bpiles) ==
    CASE req.type = "TAKE_CAMELS" -> ExecTakeCamels(pa, h, tks, piles, bpiles)
      [] req.type = "TAKE_SINGLE" -> ExecTakeSingle(req.card, pa, h, tks, piles, bpiles)
      [] req.type = "TAKE_MANY" -> ExecTakeMany(req.take, req.give, pa, h, tks, piles, bpiles)
      [] req.type = "SELL" -> ExecSell(req.card, req.qty, pa, h, tks, piles, bpiles)
      [] OTHER -> Result(Malformed, pa, h, tks, piles, bpiles, 0)

----------------------------------------------------------------------------
(* _fill_play_area *)

\* The size the play area is refilled to
PlayAreaSize == 5

FillCount(pa, dk) ==
    IF BagLen(pa) < PlayAreaSize THEN Min(PlayAreaSize - BagLen(pa), Len(dk)) ELSE 0

FillPlayArea(pa, dk) ==
    [play_area |-> BagSum(pa, BagOf(Popped(dk, FillCount(pa, dk)))),
     deck |-> Rest(dk, FillCount(pa, dk))]

----------------------------------------------------------------------------
(* _check_for_end_of_round *)

\* EndOfRound with "fewer than three piles" for "no pile"
EndOfRoundFewerThanThree(dk, piles) ==
    \/ Len(dk) = 0
    \/ Cardinality({c \in Goods : Len(piles[c]) >= 3}) < 3

\* The condition under which the scorer runs
EndOfRound(dk, piles) ==
    \/ Len(dk) = 0
    \/ Cardinality({c \in Goods : Len(piles[c]) >= 3}) = 0

\* What the condition looks at (for the observer): the cards left in the
\* deck and the number of piles that still hold at least 3 tokens
Left(dk, piles) ==
    [deck |-> Len(dk), piles |-> Cardinality({c \in Goods : Len(piles[c]) >= 3})]

NotLeft == [deck |-> 0, piles |-> 0]

\* The camel bonus
CamelBonus == 5

BonusTokensOf(tks) == SelectSeq(tks, LAMBDA t : t.kind = "bonus")
GoodsTokensOf(tks) == SelectSeq(tks, LAMBDA t : t.kind = "goods")

\* sum(t for t in tokens if isinstance(t, X)): the sum of the token OBJECTS,
\* which is 0 for none and a TypeError (int + token) for any
SumRaises(tks) == tks # <<>>

PointsWithCamels(p, h, tks) ==
    points(tks[p]) + (IF h[p][CAMEL] > h[Other(p)][CAMEL] THEN CamelBonus ELSE 0)

\* The scorer: [raised, winner], winner "None" when no seal is awarded
Scorer(h, tks) ==
    LET player1_points == PointsWithCamels(Player1, h, tks)
        player2_points == PointsWithCamels(Player2, h, tks)
    IN  IF player1_points > player2_points THEN [raised |-> FALSE, winner |-> Player1]
        ELSE IF player2_points > player1_points THEN [raised |-> FALSE, winner |-> Player2]
        ELSE IF SumRaises(BonusTokensOf(tks[Player1])) \/ SumRaises(BonusTokensOf(tks[Player2]))
        THEN [raised |-> TRUE, winner |-> "None"]
        ELSE IF SumRaises(GoodsTokensOf(tks[Player1])) \/ SumRaises(GoodsTokensOf(tks[Player2]))
        THEN [raised |-> TRUE, winner |-> "None"]
        ELSE [raised |-> FALSE, winner |-> "None"]

\* What the scorer is looking at when it runs (for the observer)
Seen(h, tks) ==
    [points |-> [p \in Players |-> PointsWithCamels(p, h, tks)],
     bonus |-> [p \in Players |-> Len(BonusTokensOf(tks[p]))],
     goods |-> [p \in Players |-> Len(GoodsTokensOf(tks[p]))]]

NotSeen ==
    [points |-> [p \in Players |-> 0],
     bonus |-> [p \in Players |-> 0],
     goods |-> [p \in Players |-> 0]]

\* The seal count that ends the match
WinningSeals == 2

\* CheckForEndOfGame with the second player's seals never looked at
CheckForEndOfGameFirstOnly(s) ==
    IF s[Player1] = WinningSeals THEN "_player1_wins"
    ELSE "start_round"

\* CheckForEndOfGame with the seal count compared one too high
CheckForEndOfGameLate(s) ==
    IF s[Player1] = WinningSeals + 1 THEN "_player1_wins"
    ELSE IF s[Player2] = WinningSeals + 1 THEN "_player2_wins"
    ELSE "start_round"

\* _check_for_end_of_game: the input it feeds the machine
CheckForEndOfGame(s) ==
    IF s[Player1] = WinningSeals THEN "_player1_wins"
    ELSE IF s[Player2] = WinningSeals THEN "_player2_wins"
    ELSE "start_round"

----------------------------------------------------------------------------
(* The transition table: the state entered upon an input, "None" where the *)
(* machine has no transition (automat raises NoTransition and stays).      *)

upon(st, input) ==
    CASE st = "Setup" /\ input = "start_round" -> "PlayerTurn"
      [] st = "PlayerTurn" /\ input = "player_action" -> "PendingAction"
      [] st = "PendingAction" /\ input = "_action_success" -> "BetweenTurns"
      [] st = "PendingAction" /\ input = "_action_failure" -> "PlayerTurn"
      [] st = "BetweenTurns" /\ input = "_next_turn" -> "PlayerTurn"
      [] st = "BetweenTurns" /\ input = "_end_round" -> "BetweenRounds"
      [] st = "BetweenRounds" /\ input = "start_round" -> "PlayerTurn"
      [] st = "BetweenRounds" /\ input = "_player1_wins" -> "Player1Victory"
      [] st = "BetweenRounds" /\ input = "_player2_wins" -> "Player2Victory"
      [] OTHER -> "None"

----------------------------------------------------------------------------
(* The observer's record of the last external call *)

\* input: the input called; outcome: "ok" or the exception it raised;
\* ended: the scorer ran; setup: _setup_round ran; winner: the seal awarded;
\* seen: what the scorer saw; left: what _check_for_end_of_round saw
Call(input, outcome, ended, setup, winner, seen, left) ==
    [input |-> input, outcome |-> outcome, ended |-> ended, setup |-> setup,
     winner |-> winner, seen |-> seen, left |-> left]

NoCall == Call("None", "None", FALSE, FALSE, "None", NotSeen, NotLeft)
Running == Call("player_action", "running", FALSE, FALSE, "None", NotSeen, NotLeft)

----------------------------------------------------------------------------
(* Init: the game as the constructor leaves it *)

Init ==
    /\ state = "Setup"
    /\ deck = StandardDeck
    /\ play_area = EmptyBag
    /\ hand = [p \in Players |-> EmptyBag]
    /\ ptokens = [p \in Players |-> <<>>]
    /\ seals = [p \in Players |-> 0]
    /\ tokens = Tokens
    /\ bonuses = Bonuses
    /\ current_player = Player1
    /\ pending = NoRequest
    /\ call = NoCall
    /\ sold = 0
    /\ turns = 0
    /\ round = 0

----------------------------------------------------------------------------
(* Actions *)

\* _setup_round as an effect on the game, given the hands it adds to
DoSetupRound(seed, h) ==
    LET s == SetupRound(seed) IN
    /\ play_area' = s.play_area
    /\ deck' = s.deck
    /\ tokens' = s.tokens
    /\ bonuses' = s.bonuses
    /\ hand' = [p \in Players |-> BagSum(h[p], s.deal[p])]
    /\ sold' = 0
    /\ turns' = 0
    /\ round' = round + 1

\* start_round(), called from outside
StartRound ==
    /\ upon(state, "start_round") # "None"
    /\ state' = upon(state, "start_round")
    /\ \E seed \in Seeds : DoSetupRound(seed, hand)
    /\ call' = Call("start_round", "ok", FALSE, TRUE, "None", NotSeen, NotLeft)
    /\ UNCHANGED <<ptokens, seals, current_player, pending>>

\* player_action(action_type, *args), called from outside: the machine
\* enters _pending_action and take_action is about to run
PlayerAction(req, maxturns, maxrounds) ==
    /\ upon(state, "player_action") # "None"
    /\ turns < maxturns
    /\ round <= maxrounds
    /\ state' = upon(state, "player_action")
    /\ pending' = req
    /\ call' = Running
    /\ UNCHANGED <<game, sold, turns, round>>

\* take_action: the executor raised; _action_failure, and the error is re-raised
ActionFailure(r, h, tk) ==
    /\ state' = upon(state, "_action_failure")
    /\ play_area' = r.play_area
    /\ hand' = h
    /\ ptokens' = tk
    /\ tokens' = r.tokens
    /\ bonuses' = r.bonuses
    /\ call' = Call("player_action", r.err, FALSE, FALSE, "None", NotSeen, NotLeft)
    /\ UNCHANGED <<deck, seals, current_player, sold, turns, round>>

\* NextTurn with the acting player left as it is
NextTurnNoToggle(r, f, h, tk) ==
    /\ state' = upon(upon(state, "_action_success"), "_next_turn")
    /\ play_area' = f.play_area
    /\ deck' = f.deck
    /\ hand' = h
    /\ ptokens' = tk
    /\ tokens' = r.tokens
    /\ bonuses' = r.bonuses
    /\ call' = Call("player_action", "ok", FALSE, FALSE, "None", NotSeen, Left(f.deck, r.tokens))
    /\ sold' = sold + r.sold
    /\ turns' = turns + 1
    /\ UNCHANGED <<seals, current_player, round>>

\* _action_success, _fill_play_area, then _next_turn and _toggle_current_player
NextTurn(r, f, h, tk) ==
    /\ state' = upon(upon(state, "_action_success"), "_next_turn")
    /\ play_area' = f.play_area
    /\ deck' = f.deck
    /\ hand' = h
    /\ ptokens' = tk
    /\ tokens' = r.tokens
    /\ bonuses' = r.bonuses
    /\ current_player' = Other(current_player)
    /\ call' = Call("player_action", "ok", FALSE, FALSE, "None", NotSeen, Left(f.deck, r.tokens))
    /\ sold' = sold + r.sold
    /\ turns' = turns + 1
    /\ UNCHANGED <<seals, round>>

\* The scorer raised TypeError: nothing catches it, and the machine stays
\* where _action_success put it
ScorerRaised(r, f, h, tk) ==
    /\ state' = upon(state, "_action_success")
    /\ play_area' = f.play_area
    /\ deck' = f.deck
    /\ hand' = h
    /\ ptokens' = tk
    /\ tokens' = r.tokens
    /\ bonuses' = r.bonuses
    /\ call' = Call("player_action", "TypeError", TRUE, FALSE, "None", Seen(h, tk),
                  Left(f.deck, r.tokens))
    /\ sold' = sold + r.sold
    /\ turns' = turns + 1
    /\ UNCHANGED <<seals, current_player, round>>

\* EndRound with the winner, not the loser, made the current player
EndRoundWinnerFirst(r, f, h, tk, winner) ==
    LET s2 == IF winner = "None" THEN seals ELSE [seals EXCEPT ![winner] = @ + 1]
        input == CheckForEndOfGame(s2)
        between == upon(upon(state, "_action_success"), "_end_round")
    IN  /\ seals' = s2
        /\ current_player' = IF winner = "None" THEN current_player ELSE winner
        /\ ptokens' = tk
        /\ state' = upon(between, input)
        /\ IF input = "start_round"
           THEN /\ \E seed \in Seeds : DoSetupRound(seed, h)
                /\ call' = Call("player_action", "ok", TRUE, TRUE, winner, Seen(h, tk),
                               Left(f.deck, r.tokens))
           ELSE /\ play_area' = f.play_area
                /\ deck' = f.deck
                /\ hand' = h
                /\ tokens' = r.tokens
                /\ bonuses' = r.bonuses
                /\ sold' = sold + r.sold
                /\ turns' = turns + 1
                /\ round' = round
                /\ call' = Call("player_action", "ok", TRUE, FALSE, winner, Seen(h, tk),
                               Left(f.deck, r.tokens))

\* The scorer returned: the seal, the next round's first player, _end_round,
\* _check_for_end_of_game and the input it feeds
EndRound(r, f, h, tk, winner) ==
    LET s2 == IF winner = "None" THEN seals ELSE [seals EXCEPT ![winner] = @ + 1]
        input == CheckForEndOfGame(s2)
        between == upon(upon(state, "_action_success"), "_end_round")
    IN  /\ seals' = s2
        /\ current_player' = IF winner = "None" THEN current_player ELSE Other(winner)
        /\ ptokens' = tk
        /\ state' = upon(between, input)
        /\ IF input = "start_round"
           THEN /\ \E seed \in Seeds : DoSetupRound(seed, h)
                /\ call' = Call("player_action", "ok", TRUE, TRUE, winner, Seen(h, tk),
                               Left(f.deck, r.tokens))
           ELSE /\ play_area' = f.play_area
                /\ deck' = f.deck
                /\ hand' = h
                /\ tokens' = r.tokens
                /\ bonuses' = r.bonuses
                /\ sold' = sold + r.sold
                /\ turns' = turns + 1
                /\ round' = round
                /\ call' = Call("player_action", "ok", TRUE, FALSE, winner, Seen(h, tk),
                               Left(f.deck, r.tokens))

\* The output take_action and everything it sets off
TakeAction ==
    /\ state = "PendingAction"
    /\ pending' = NoRequest
    /\ LET p == current_player
           r == ExecuteAction(pending, play_area, hand[p], ptokens[p], tokens, bonuses)
           f == FillPlayArea(r.play_area, deck)
           h == [hand EXCEPT ![p] = r.hand]
           tk == [ptokens EXCEPT ![p] = r.ptokens]
       IN  IF r.err # "none" THEN ActionFailure(r, h, tk)
           ELSE IF ~EndOfRound(f.deck, r.tokens) THEN NextTurn(r, f, h, tk)
           ELSE IF Scorer(h, tk).raised THEN ScorerRaised(r, f, h, tk)
           ELSE EndRound(r, f, h, tk, Scorer(h, tk).winner)

ExternalInputs == {"start_round", "player_action"}

\* An input the state has no transition for: automat raises NoTransition
NoTransition(input) ==
    /\ state # "PendingAction"
    /\ upon(state, input) = "None"
    /\ call' = Call(input, "NoTransition", FALSE, FALSE, "None", NotSeen, NotLeft)
    /\ UNCHANGED <<state, game, pending, sold, turns, round>>

----------------------------------------------------------------------------
(* The requests the players make *)

\* the multisets of exactly n cards over the types in S
RECURSIVE BagsOfSize(_, _)
BagsOfSize(n, S) ==
    IF n = 0 THEN {EmptyBag}
    ELSE {[b EXCEPT ![c] = @ + 1] : b \in BagsOfSize(n - 1, S), c \in S}

ExchangeTypes == {CAMEL, LEATHER, CLOTH, GOLD}
ExchangeBags == BagsOfSize(1, ExchangeTypes) \cup BagsOfSize(2, ExchangeTypes)

Requests ==
    {TakeCamels, Unrecognized}
        \cup {TakeSingle(c) : c \in CardType}
        \cup {Sell(c, q) : c \in CardType, q \in (-1)..MaxSell}
        \cup {TakeMany(t, g) : t \in ExchangeBags, g \in ExchangeBags}

Next ==
    \/ StartRound
    \/ \E req \in Requests : PlayerAction(req, MaxTurns, MaxRounds)
    \/ TakeAction
    \/ \E input \in ExternalInputs : NoTransition(input)

Spec == Init /\ [][Next]_vars

----------------------------------------------------------------------------
(* Whole matches.  Under SpecMatch both players keep to one line of play,  *)
(* so that rounds and matches run to their end: a player who holds at      *)
(* least LiquidateAt cards of some good sells all cards of the first such  *)
(* good (the most valuable first); otherwise the player takes the camels   *)
(* on offer; with no camel on offer, the player sweeps the market.         *)

\* "sweep the market": exchange every good on offer for as many camels
SweepMarket(pa) ==
    TakeMany([pa EXCEPT ![CAMEL] = 0], [EmptyBag EXCEPT ![CAMEL] = cards_in_hand(pa)])

SellOrder == <<DIAMONDS, GOLD, SILVER, CLOTH, SPICE, LEATHER>>
Sellable(h) == {i \in DOMAIN SellOrder : h[SellOrder[i]] >= LiquidateAt}
FirstSellable(h) == SellOrder[CHOOSE i \in Sellable(h) : \A j \in Sellable(h) : i <= j]

MatchRequests(pa, h) ==
    IF Sellable(h) # {} THEN {Sell(FirstSellable(h), h[FirstSellable(h)])}
    ELSE IF pa[CAMEL] > 0 THEN {TakeCamels}
    ELSE {SweepMarket(pa)}

\* requests no state accepts: a rule violation and two malformed requests
Blunders ==
    {Sell(CAMEL, 1), Unrecognized,
     TakeMany([EmptyBag EXCEPT ![LEATHER] = 2], [EmptyBag EXCEPT ![CAMEL] = 1])}

NextMatch ==
    \/ StartRound
    \/ \E req \in MatchRequests(play_area, hand[current_player]) \cup Blunders : PlayerAction(req, MatchTurns, MaxRounds)
    \/ TakeAction
    \/ \E input \in ExternalInputs : NoTransition(input)

SpecMatch == Init /\ [][NextMatch]_vars

----------------------------------------------------------------------------
(* Drawing single cards.  Under SpecSingle the players only ask for single *)
(* cards, of every type, on offer or not, until a hand is full.            *)

SingleRequests == {TakeSingle(c) : c \in CardType}

NextSingle ==
    \/ StartRound
    \/ \E req \in SingleRequests : PlayerAction(req, SingleTurns, 1)
    \/ TakeAction
    \/ \E input \in ExternalInputs : NoTransition(input)

SpecSingle == Init /\ [][NextSingle]_vars

----------------------------------------------------------------------------
(* Selling a pile out.  Under SpecSell both players sell leather, turn by  *)
(* turn, in the quantities of SellPlan: each first stocks up with a sale   *)
(* of a negative quantity (which the executor accepts, adding the cards),  *)
(* then the sales run the leather pile and the 5-card bonus pile empty.    *)

SellPlan == <<-40, -40, 1, 2, 2, 3, 3, 4, 6, 5, 5, 5, 5, 5, 5, 1>>

SellRequests(t) ==
    (IF t < Len(SellPlan) THEN {Sell(LEATHER, SellPlan[t + 1])} ELSE {}) \cup Blunders

NextSell ==
    \/ StartRound
    \/ \E req \in SellRequests(turns) : PlayerAction(req, Len(SellPlan), 1)
    \/ TakeAction
    \/ \E input \in ExternalInputs : NoTransition(input)

SpecSell == Init /\ [][NextSell]_vars

----------------------------------------------------------------------------
(* Matches without a sale.  Under SpecDraw the players never sell: a       *)
(* player takes the camels on offer and otherwise sweeps the market, so a  *)
(* round ends when the deck runs out, on the camel bonus alone or with no  *)
(* winner at all.                                                          *)

DrawRequests(pa) == IF pa[CAMEL] > 0 THEN {TakeCamels} ELSE {SweepMarket(pa)}

NextDraw ==
    \/ StartRound
    \/ \E req \in DrawRequests(play_area) \cup Blunders : PlayerAction(req, MatchTurns, MaxRounds)
    \/ TakeAction
    \/ \E input \in ExternalInputs : NoTransition(input)

SpecDraw == Init /\ [][NextDraw]_vars

----------------------------------------------------------------------------
(* Properties *)

\* the call that just returned executed the action (it raised nothing, or
\* only the scorer raised, after the action had been executed)
Accepted(c) == c.outcome \in {"ok", "TypeError"}
Rejected(c) == c.outcome \in {Illegal, Malformed}

SubBag(a, b) == \A c \in CardType : a[c] <= b[c]

\* C1: a player_action that is rejected (IllegalPlayError or ValueError)
\* leaves the deck, the market, both hands, both token lists, both seal
\* counts, every goods and bonus pile and the acting player as they were,
\* and the machine is back in PlayerTurn.
C1_RejectionChangesNothing ==
    [][(state = "PendingAction" /\ Rejected(call'))
         => (game' = game /\ state' = "PlayerTurn")]_vars

\* a rule violation was rejected after the round's first accepted action
C1_Witness ==
    /\ state = "PlayerTurn"
    /\ call.input = "player_action"
    /\ call.outcome = Illegal
    /\ turns > 0

\* C2: whenever the machine waits for a player, deck + market + both hands
\* + the cards sold since the round started is 52.
C2_CardConservation ==
    state = "PlayerTurn"
        => Len(deck) + BagLen(play_area) + BagLen(hand[Player1])
             + BagLen(hand[Player2]) + sold = 52

\* a state of the first round in which the count is not even the 55 cards
\* of the deck the round was set up with
C2_Drift ==
    /\ state = "PlayerTurn"
    /\ round = 1
    /\ Len(deck) + BagLen(play_area) + BagLen(hand[Player1])
         + BagLen(hand[Player2]) + sold # Len(StandardDeck)

\* C3: an exchange is accepted only if what it takes is in the market and
\* what it gives is in the hand; a well-formed exchange that takes a card
\* the market does not hold, or gives a card the player does not hold, is
\* rejected as a rule violation.
C3_ExchangeWithinStock ==
    [][(state = "PendingAction" /\ pending.type = "TAKE_MANY")
         => LET within == /\ SubBag(pending.take, play_area)
                          /\ SubBag(pending.give, hand[current_player])
            IN  /\ Accepted(call') => within
                /\ (~within /\ BagLen(pending.take) = BagLen(pending.give))
                     => call'.outcome = Illegal]_vars

\* C4: an exchange of equal sizes >= 2 in which some good type is both
\* taken and given is rejected as a rule violation.
C4_NoSameForSame ==
    [][(/\ state = "PendingAction"
        /\ pending.type = "TAKE_MANY"
        /\ BagLen(pending.take) = BagLen(pending.give)
        /\ BagLen(pending.take) >= 2
        /\ \E c \in CardType : pending.take[c] > 0 /\ pending.give[c] > 0)
         => call'.outcome = Illegal]_vars

\* the sale the claim allows
SellLegal(c, q, h) ==
    /\ c # CAMEL
    /\ q > 0
    /\ h[c] >= q
    /\ (c \in PRECIOUS_GOODS => q # 1)

\* C5: a Sell of q cards of type T is accepted if and only if T is not
\* camel, q > 0, the hand holds at least q cards of T, and q is not 1 when
\* T is precious; every other Sell is rejected as a rule violation.
C5_SellGating ==
    [][(state = "PendingAction" /\ pending.type = "SELL")
         => IF SellLegal(pending.card, pending.qty, hand[current_player])
            THEN Accepted(call')
            ELSE call'.outcome = Illegal]_vars

\* C6: every goods token a Sell draws from a pile is worth at least as much
\* as every token the sale leaves in that pile.
C6_HighestTokenFirst ==
    [][state = "PendingAction"
         => \A c \in Goods :
              Len(tokens'[c]) < Len(tokens[c])
                => \A i \in (Len(tokens'[c]) + 1)..Len(tokens[c]) :
                     \A j \in 1..Len(tokens'[c]) : tokens[c][i] >= tokens'[c][j]]_vars

\* the winner the cascade names for what the scorer saw
CascadeWinner(seen) ==
    IF seen.points[Player1] > seen.points[Player2] THEN Player1
    ELSE IF seen.points[Player2] > seen.points[Player1] THEN Player2
    ELSE IF seen.bonus[Player1] > seen.bonus[Player2] THEN Player1
    ELSE IF seen.bonus[Player2] > seen.bonus[Player1] THEN Player2
    ELSE IF seen.goods[Player1] > seen.goods[Player2] THEN Player1
    ELSE IF seen.goods[Player2] > seen.goods[Player1] THEN Player2
    ELSE "None"

\* C7: at every round end the scorer completes and awards exactly one seal
\* to the winner of the cascade points, bonus-token count, goods-token
\* count, and no seal when all three are equal.
C7_ScoringCascade ==
    [][(state = "PendingAction" /\ call'.ended)
         => LET w == CascadeWinner(call'.seen)
            IN  /\ call'.outcome = "ok"
                /\ call'.winner = w
                /\ seals' = [p \in Players |-> seals[p] + (IF p = w THEN 1 ELSE 0)]]_vars

\* C8 as stated: after an accepted action and the refill, the round ends if
\* and only if the deck is empty or fewer than three goods piles hold at
\* least 3 tokens; otherwise the machine is back in PlayerTurn.
C8_EndsBelowThreePiles ==
    [][(state = "PendingAction" /\ Accepted(call'))
         => /\ call'.ended <=> (call'.left.deck = 0 \/ call'.left.piles < 3)
            /\ ~call'.ended => state' = "PlayerTurn"]_vars

\* C8 amended: after an accepted action and the refill, the scorer runs if
\* and only if the deck is empty or no goods pile holds at least 3 tokens;
\* otherwise the machine takes next-turn: it is back in PlayerTurn with the
\* other player to act.
C8_EndsWhenNoPileHoldsThree ==
    [][(state = "PendingAction" /\ Accepted(call'))
         => /\ call'.ended <=> (call'.left.deck = 0 \/ call'.left.piles = 0)
            /\ ~call'.ended
                 => (state' = "PlayerTurn" /\ current_player' = Other(current_player))]_vars

\* the scorer ran with cards left in the deck: no pile held 3 tokens
C8_Witness ==
    /\ call.ended
    /\ call.left.deck > 0
    /\ call.left.piles = 0

\* C9: right after _setup_round, in the first round and in later ones, the
\* market holds 5 cards of which at least 3 are camels, each hand holds 5
\* cards, and the deck holds 42.
C9_FreshRound ==
    (state = "PlayerTurn" /\ call.setup)
        => /\ BagLen(play_area) = 5
           /\ play_area[CAMEL] >= 3
           /\ \A p \in Players : BagLen(hand[p]) = 5
           /\ Len(deck) = 42

\* a later round starts with more than five cards in a hand
C9_CarriedHand ==
    /\ state = "PlayerTurn"
    /\ call.setup
    /\ round > 1
    /\ \E p \in Players : BagLen(hand[p]) > 5

Victory(p) == IF p = Player1 THEN "Player1Victory" ELSE "Player2Victory"

\* C10: when a round end raises a player's seals to 2 the same call leaves
\* the machine in that player's victory state without setting up another
\* round; in a victory state every start_round and player_action raises
\* NoTransition and changes neither the state nor anything of the game.
C10_MatchTermination ==
    [][/\ (state = "PendingAction" /\ call'.ended /\ call'.outcome = "ok")
            => \A p \in Players :
                 (seals'[p] = WinningSeals /\ seals[p] # WinningSeals)
                   => (state' = Victory(p) /\ ~call'.setup /\ round' = round)
       /\ (state \in {Victory(Player1), Victory(Player2)})
            => (state' = state /\ game' = game /\ call'.outcome = "NoTransition")]_vars

\* a player holds two seals and an input was refused in the victory state
C10_Witness ==
    /\ \E p \in Players : seals[p] = WinningSeals /\ state = Victory(p)
    /\ call.outcome = "NoTransition"

\* the cards the refill moved from the deck to the market in this step
Refilled == BagOf(SubSeq(deck, Len(deck') + 1, Len(deck)))

\* C11: a Take-Single of type T is accepted if and only if the acting hand
\* holds fewer than 7 cards other than camels and the market holds a card
\* of T; otherwise it is rejected as a rule violation; when accepted, one
\* card of T moves from the market to that hand (and the refill then adds
\* the cards it draws to the market, nothing else changing hands).
C11_TakeSingle ==
    [][(state = "PendingAction" /\ pending.type = "TAKE_SINGLE")
         => LET p == current_player
                T == pending.card
            IN  IF cards_in_hand(hand[p]) < 7 /\ play_area[T] >= 1
                THEN /\ Accepted(call')
                     /\ hand' = [hand EXCEPT ![p][T] = @ + 1]
                     /\ Len(deck') <= Len(deck)
                     /\ deck' = SubSeq(deck, 1, Len(deck'))
                     /\ play_area' = BagSum([play_area EXCEPT ![T] = @ - 1], Refilled)
                ELSE call'.outcome = Illegal /\ hand' = hand /\ play_area' = play_area]_vars

\* a card on offer was refused to a player holding 7 cards other than camels
C11_Witness ==
    /\ state = "PlayerTurn"
    /\ call.outcome = Illegal
    /\ cards_in_hand(hand[current_player]) = 7
    /\ cards_in_hand(play_area) > 0

\* C12: whenever the machine waits for a player the market holds at most 5
\* cards, and exactly 5 unless the deck is empty.
C12_MarketHoldsFive ==
    state = "PlayerTurn"
        => /\ BagLen(play_area) <= 5
           /\ (BagLen(play_area) = 5 \/ Len(deck) = 0)

\* the exchange the claim calls legal
LegalExchange(take, give, pa, h) ==
    /\ BagLen(take) = BagLen(give)
    /\ BagLen(take) >= 2
    /\ take[CAMEL] = 0
    /\ \A c \in CardType : ~(take[c] > 0 /\ give[c] > 0)
    /\ SubBag(take, pa)
    /\ SubBag(give, h)

\* C14: an exchange that meets every legality condition is executed as
\* market' = market - take + give and hand' = hand - give + take; the sizes
\* of the market and of the acting hand (camels included) stay as they
\* were, and so do the deck, every pile, both token lists and the other
\* player's hand.
C14_ExchangeFrame ==
    [][(/\ state = "PendingAction"
        /\ pending.type = "TAKE_MANY"
        /\ LegalExchange(pending.take, pending.give, play_area, hand[current_player]))
         => LET p == current_player
                take == pending.take
                give == pending.give
            IN  /\ Accepted(call')
                /\ play_area' = [c \in CardType |-> play_area[c] - take[c] + give[c]]
                /\ hand' = [hand EXCEPT ![p] =
                              [c \in CardType |-> hand[p][c] - give[c] + take[c]]]
                /\ BagLen(play_area') = BagLen(play_area)
                /\ BagLen(hand'[p]) = BagLen(hand[p])
                /\ UNCHANGED <<deck, tokens, bonuses, ptokens>>]_vars

\* a legal exchange that gave camels for goods has just been executed
C14_Witness ==
    /\ state = "PlayerTurn"
    /\ turns = 1
    /\ call.outcome = "ok"
    /\ play_area[CAMEL] = 4
    /\ BagLen(play_area) = 5
    /\ BagLen(hand[Player1]) = 5
    /\ BagLen(hand[Player1]) + BagLen(hand[Player2]) + Len(deck) + BagLen(play_area)
         = Len(StandardDeck)

\* C16: an accepted action that does not end the round returns the machine
\* to PlayerTurn with the other player to act, a rejected action leaves
\* the acting player as it was, and so in the first round, which player 1
\* opens, player 1 acts after an even number of accepted actions and
\* player 2 after an odd number.
C16_TurnAlternation ==
    [][state = "PendingAction"
         => /\ (Accepted(call') /\ ~call'.ended)
                 => (state' = "PlayerTurn" /\ current_player' = Other(current_player))
            /\ Rejected(call') => current_player' = current_player
            /\ (state' = "PlayerTurn" /\ round' = 1)
                 => current_player' = (IF turns' % 2 = 0 THEN Player1 ELSE Player2)]_vars

\* two actions were accepted and the turn is back with player 1
C16_Witness ==
    /\ state = "PlayerTurn"
    /\ round = 1
    /\ turns = 2
    /\ call.outcome = "ok"
    /\ current_player = Player1

\* C13: an accepted Sell of q > 0 cards of type T takes q cards of T from
\* the seller's hand and appends to the seller's tokens min(q, tokens left
\* in T's pile) goods tokens of T and then, if and only if min(q, 5) is 3,
\* 4 or 5 and that bonus pile is not empty, one bonus token of that tier;
\* the tokens leave their piles; an empty pile yields no token and the
\* sale is still accepted.
C13_SellEffect ==
    [][(/\ state = "PendingAction"
        /\ pending.type = "SELL"
        /\ pending.qty > 0
        /\ SellLegal(pending.card, pending.qty, hand[current_player]))
         => LET p == current_player
                T == pending.card
                q == pending.qty
                n == IF q < Len(tokens[T]) THEN q ELSE Len(tokens[T])
                b == IF q < 5 THEN q ELSE 5
                due == b \in {3, 4, 5} /\ Len(bonuses[b]) > 0
                old == Len(ptokens[p])
                new == SubSeq(ptokens'[p], old + 1, Len(ptokens'[p]))
            IN  /\ Accepted(call')
                /\ hand' = [hand EXCEPT ![p][T] = @ - q]
                /\ ptokens'[Other(p)] = ptokens[Other(p)]
                /\ SubSeq(ptokens'[p], 1, old) = ptokens[p]
                /\ Len(new) = n + (IF due THEN 1 ELSE 0)
                /\ \A i \in 1..n : new[i].kind = "goods" /\ new[i].type = T
                /\ due => (new[n + 1].kind = "bonus" /\ new[n + 1].tier = b)
                /\ ~call'.setup
                     => /\ Len(tokens'[T]) = Len(tokens[T]) - n
                        /\ \A t \in BonusTypes :
                             Len(bonuses'[t]) = Len(bonuses[t]) - (IF due /\ t = b THEN 1 ELSE 0)]_vars

\* a sale was accepted that earned nothing: the leather pile and the
\* 5-card bonus pile were empty
C13_Witness ==
    /\ state = "PlayerTurn"
    /\ call.outcome = "ok"
    /\ turns = Len(SellPlan) - 1
    /\ tokens[LEATHER] = <<>>
    /\ bonuses[5] = <<>>
    /\ bonuses[3] # <<>>

\* C15: when a round ends and the next one starts, the loser of the round
\* acts first if the round had a winner, and the player who was acting
\* when the round ended acts first if it had none.
C15_LoserOpens ==
    [][(state = "PendingAction" /\ call'.ended /\ call'.outcome = "ok" /\ call'.setup)
         => /\ state' = "PlayerTurn"
            /\ current_player' = (IF call'.winner = "None" THEN current_player
                                  ELSE Other(call'.winner))]_vars

\* a round ended with no winner and the next round has started
C15_Witness ==
    /\ state = "PlayerTurn"
    /\ call.ended
    /\ call.outcome = "ok"
    /\ call.winner = "None"
    /\ call.setup
    /\ round > 1

SealsInv ==
    /\ \A p \in Players : seals[p] \in {0, 1, 2}
    /\ ~(seals[Player1] = 2 /\ seals[Player2] = 2)
    /\ state = "Player1Victory" <=> seals[Player1] = 2
    /\ state = "Player2Victory" <=> seals[Player2] = 2

\* C17: every seal count is 0, 1 or 2 and never decreases, at most one
\* player holds 2 seals, and the machine is in Player1Victory (Player2Victory)
\* exactly when player 1 (player 2) holds 2 seals.
C17_Seals ==
    [][/\ SealsInv
       /\ SealsInv'
       /\ \A p \in Players : seals'[p] >= seals[p]]_vars

\* player 1 has won the match two rounds to one
C17_Witness ==
    /\ state = "Player1Victory"
    /\ seals[Player1] = 2
    /\ seals[Player2] = 1

\* C18: once a start_round or player_action call has returned, normally or
\* by raising, the machine does not rest in PendingAction, BetweenTurns or
\* BetweenRounds.
C18_NoStrandedState ==
    (call.input \in ExternalInputs /\ call.outcome # "running")
        => state \notin {"PendingAction", "BetweenTurns", "BetweenRounds"}

\* C19: whenever the machine waits for a player, each hand holds at most 7
\* cards other than camels.
C19_HandCap ==
    state = "PlayerTurn" => \A p \in Players : cards_in_hand(hand[p]) <= 7

\* the tokens of a goods type, and of a bonus tier, in the players' lists
HeldGoods(c) ==
    Len(SelectSeq(ptokens[Player1], LAMBDA t : t.kind = "goods" /\ t.type = c))
        + Len(SelectSeq(ptokens[Player2], LAMBDA t : t.kind = "goods" /\ t.type = c))
HeldBonus(b) ==
    Len(SelectSeq(ptokens[Player1], LAMBDA t : t.kind = "bonus" /\ t.tier = b))
        + Len(SelectSeq(ptokens[Player2], LAMBDA t : t.kind = "bonus" /\ t.tier = b))

\* C20: whenever the machine waits for a player, in every round, for each
\* goods type the tokens in its pile plus those of that type the players
\* hold make up the pile's initial size, and likewise for each bonus tier.
C20_TokenConservation ==
    state = "PlayerTurn"
        => /\ \A c \in Goods : Len(tokens[c]) + HeldGoods(c) = Len(TokenPile(c))
           /\ \A b \in BonusTypes : Len(bonuses[b]) + HeldBonus(b) = Len(BonusTokenPile(b))

\* a later round starts with tokens of the earlier rounds in a player's list
C20_CarriedTokens ==
    /\ state = "PlayerTurn"
    /\ call.setup
    /\ round > 1
    /\ \E p \in Players : ptokens[p] # <<>>

====
